---- MODULE Spec2Model ----
(***************************************************************************)
(* Gate-cost estimation of qc_grader/util.py: the memoizing decorator      *)
(* `cached`, the key function `gate_key`, the recursive `gate_cost`, and   *)
(* the circuit-level `compute_cost` and `has_cx`.                          *)
(*                                                                         *)
(* The state is the dictionary f.__cache of the decorated gate_cost plus   *)
(* the record of the most recent top-level call: which function was        *)
(* called, on what, what it returned or whether it raised, the cache it    *)
(* started from, and the trace of what the memoizing wrapper did during    *)
(* the call (wrapper entered, underlying function invoked, entry stored,   *)
(* value returned, exception raised).                                      *)
(***************************************************************************)
EXTENDS Integers, Sequences, FiniteSets, TLC

VARIABLES cache, op, arg, result, found, cache0, log

vars == <<cache, op, arg, result, found, cache0, log>>

----------------------------------------------------------------------------
(* Bounds                                                                  *)

\* longest instruction list of a circuit handed to compute_cost / has_cx
MaxCircuitLen == 2

----------------------------------------------------------------------------
(* The objects the functions are handed.  An instruction object has a      *)
(* class (what isinstance tests), a name and a qubit count (what gate_key  *)
(* reads) and a definition (what gate_cost reads): None, or a circuit      *)
(* whose data is a list of (instruction, qargs, cargs) entries.  Classes,  *)
(* names and definitions are independent attributes of an object: nothing  *)
(* in the source ties a name to a class or to a decomposition.             *)

None == [is_none |-> TRUE, data |-> <<>>]

QuantumCircuit(data) == [is_none |-> FALSE, data |-> data]

\* one entry of circuit.data: the instruction with its qubit and clbit targets
Entry(g, n) == <<g, [i \in 1..n |-> i - 1], <<>>>>

Objects ==
  [ u        |-> [class |-> "UGate",   name |-> "u",       num_qubits |-> 1,
                  definition |-> None],
    u3       |-> [class |-> "U3Gate",  name |-> "u3",      num_qubits |-> 1,
                  definition |-> None],
    cx       |-> [class |-> "CXGate",  name |-> "cx",      num_qubits |-> 2,
                  definition |-> None],
    measure  |-> [class |-> "Measure", name |-> "measure", num_qubits |-> 1,
                  definition |-> None],
    \* composite: [single-qubit primitive, single-qubit primitive, two-qubit primitive]
    foo      |-> [class |-> "Gate",    name |-> "foo",     num_qubits |-> 2,
                  definition |-> QuantumCircuit(
                    <<Entry("u", 1), Entry("u3", 1), Entry("cx", 2)>>)],
    \* another gate named foo on 2 qubits, built around the first one
    foo_u    |-> [class |-> "Gate",    name |-> "foo",     num_qubits |-> 2,
                  definition |-> QuantumCircuit(
                    <<Entry("foo", 2), Entry("u", 1)>>)],
    \* a third gate named foo on 2 qubits, whose second sub-gate is opaque
    foo_opq  |-> [class |-> "Gate",    name |-> "foo",     num_qubits |-> 2,
                  definition |-> QuantumCircuit(
                    <<Entry("foo", 2), Entry("opq", 1)>>)],
    \* a gate whose definition is a circuit with no instructions
    nop      |-> [class |-> "Gate",    name |-> "nop",     num_qubits |-> 1,
                  definition |-> QuantumCircuit(<<>>)],
    \* an opaque gate, also named nop: no recognized class and no definition
    opq      |-> [class |-> "Gate",    name |-> "nop",     num_qubits |-> 1,
                  definition |-> None],
    \* user gates that carry the names of the primitives
    user_u   |-> [class |-> "Gate",    name |-> "u",       num_qubits |-> 1,
                  definition |-> QuantumCircuit(
                    <<Entry("u3", 1), Entry("u3", 1)>>)],
    user_cx  |-> [class |-> "Gate",    name |-> "cx",      num_qubits |-> 2,
                  definition |-> QuantumCircuit(
                    <<Entry("u", 1), Entry("u3", 1)>>)] ]

Instructions == DOMAIN Objects

\* the subclasses of qiskit.circuit.Gate among the classes above
GateClasses == {"Gate", "UGate", "U3Gate", "CXGate"}

isinstance(g, cls) ==
  IF cls = "Gate" THEN Objects[g].class \in GateClasses
                  ELSE Objects[g].class = cls

Gates == {g \in Instructions : isinstance(g, "Gate")}

\* the instructions a circuit's instruction list is drawn from
CircuitInstructions == {"u", "cx", "measure", "opq", "user_cx"}

RECURSIVE DataOfLen(_)
DataOfLen(n) ==
  IF n = 0 THEN {<<>>}
  ELSE {Append(d, Entry(g, Objects[g].num_qubits)) :
          d \in DataOfLen(n - 1), g \in CircuitInstructions}

\* circuit.data of the circuits handed to compute_cost and has_cx
Circuits == UNION {DataOfLen(n) : n \in 0..MaxCircuitLen}

----------------------------------------------------------------------------
(* gate_key                                                                *)

gate_key(gate) == <<Objects[gate].name, Objects[gate].num_qubits>>

----------------------------------------------------------------------------
(* The evaluation state threaded through one top-level call: the cache,    *)
(* the trace so far, and the outcome of the call that just finished        *)
(* (ok = it returned val; ~ok = it raised).                                *)

Event(e, gate, val, old, depth) ==
  [e |-> e, gate |-> gate, key |-> gate_key(gate), val |-> val,
   old |-> old, depth |-> depth]

Logged(st, e, gate, val, old, depth) ==
  [st EXCEPT !.log = Append(@, Event(e, gate, val, old, depth))]

Start(c) == [cache |-> c, log |-> <<>>, ok |-> TRUE, val |-> 0]

\* the value stored under key before an assignment, -1 when there is none
Old(c, key) == IF key \in DOMAIN c THEN c[key] ELSE -1

RECURSIVE decorated(_, _, _), sum_map(_, _, _, _, _)

\* sum(map(gate_cost, (g for g, _, _ in data))): left to right, each call
\* seeing the cache the calls before it left; an exception ends the sum
sum_map(data, i, acc, st, depth) ==
  IF i > Len(data) THEN [st EXCEPT !.ok = TRUE, !.val = acc]
  ELSE LET r == decorated(data[i][1], st, depth)
       IN  IF ~r.ok THEN r
           ELSE sum_map(data, i + 1, acc + r.val, r, depth)

\* gate_cost with a missing definition read as an empty one
gate_cost_absent_is_empty(gate, st, depth) ==
  IF isinstance(gate, "UGate") THEN [st EXCEPT !.ok = TRUE, !.val = 1]
  ELSE IF isinstance(gate, "U3Gate") THEN [st EXCEPT !.ok = TRUE, !.val = 1]
  ELSE IF isinstance(gate, "CXGate") THEN [st EXCEPT !.ok = TRUE, !.val = 10]
  ELSE sum_map(Objects[gate].definition.data, 1, 0, st, depth + 1)

\* the undecorated gate_cost (the f of the decorator), lines 90-97
gate_cost(gate, st, depth) ==
  IF isinstance(gate, "UGate") THEN [st EXCEPT !.ok = TRUE, !.val = 1]
  ELSE IF isinstance(gate, "U3Gate") THEN [st EXCEPT !.ok = TRUE, !.val = 1]
  ELSE IF isinstance(gate, "CXGate") THEN [st EXCEPT !.ok = TRUE, !.val = 10]
  ELSE IF Objects[gate].definition.is_none
       THEN \* None has no attribute data: AttributeError
            [Logged(st, "raise", gate, 0, -1, depth) EXCEPT !.ok = FALSE, !.val = 0]
       ELSE sum_map(Objects[gate].definition.data, 1, 0, st, depth + 1)

\* the wrapper _decorated that the name gate_cost is bound to, lines 76-80
decorated(gate, st, depth) ==
  LET key == gate_key(gate)
      s1  == Logged(st, "call", gate, 0, -1, depth)
  IN  IF key \in DOMAIN s1.cache
      THEN [Logged(s1, "return", gate, s1.cache[key], -1, depth)
              EXCEPT !.ok = TRUE, !.val = s1.cache[key]]
      ELSE LET r == gate_cost(gate, Logged(s1, "invoke", gate, 0, -1, depth), depth)
           IN  IF ~r.ok THEN r
               ELSE LET s2 == [Logged(r, "store", gate, r.val, Old(r.cache, key), depth)
                                 EXCEPT !.cache = (key :> r.val) @@ r.cache]
                    IN  [Logged(s2, "return", gate, s2.cache[key], -1, depth)
                           EXCEPT !.ok = TRUE, !.val = s2.cache[key]]

\* (g for g, _, _ in circuit.data if isinstance(g, Gate))
GateEntries(data) == SelectSeq(data, LAMBDA t : isinstance(t[1], "Gate"))

\* compute_cost without the isinstance(g, Gate) filter
compute_cost_unfiltered(data, st) == sum_map(data, 1, 0, st, 0)

compute_cost(data, st) == sum_map(GateEntries(data), 1, 0, st, 0)

\* has_cx deciding by the instruction's name instead of its class
has_cx_by_name(data) == \E i \in 1..Len(data) : Objects[data[i][1]].name = "cx"

has_cx(data) == \E i \in 1..Len(data) : isinstance(data[i][1], "CXGate")

----------------------------------------------------------------------------
(* The state machine: one action per public function, each a whole call.   *)

NoResult == [status |-> "none", val |-> 0]

Outcome(r) == IF r.ok THEN [status |-> "ok", val |-> r.val]
                      ELSE [status |-> "raised", val |-> 0]

Init ==
  /\ cache = <<>>
  /\ op = "init"
  /\ arg = <<>>
  /\ result = NoResult
  /\ found = FALSE
  /\ cache0 = <<>>
  /\ log = <<>>

GateCost(gate) ==
  LET r == decorated(gate, Start(cache), 0)
  IN  /\ op' = "gate_cost"
      /\ arg' = <<Entry(gate, Objects[gate].num_qubits)>>
      /\ cache0' = cache
      /\ cache' = r.cache
      /\ log' = r.log
      /\ result' = Outcome(r)
      /\ found' = FALSE

ComputeCost(data) ==
  LET r == compute_cost(data, Start(cache))
  IN  /\ op' = "compute_cost"
      /\ arg' = data
      /\ cache0' = cache
      /\ cache' = r.cache
      /\ log' = r.log
      /\ result' = Outcome(r)
      /\ found' = FALSE

HasCx(data) ==
  /\ op' = "has_cx"
  /\ arg' = data
  /\ cache0' = cache
  /\ cache' = cache
  /\ log' = <<>>
  /\ result' = NoResult
  /\ found' = has_cx(data)

Next ==
  \/ \E gate \in Gates : GateCost(gate)
  \/ \E data \in Circuits : ComputeCost(data)
  \/ \E data \in Circuits : HasCx(data)

Spec == Init /\ [][Next]_vars

----------------------------------------------------------------------------
(* Vocabulary of the properties                                            *)

\* the gate a gate_cost call was made on
TopGate == arg[1][1]

Recognized(g) == Objects[g].class \in {"UGate", "U3Gate", "CXGate"}

\* no recognized primitive class and the definition is None
Opaque(g) == ~Recognized(g) /\ Objects[g].definition.is_none

\* no recognized primitive class and a definition with no instructions
EmptyComposite(g) ==
  /\ ~Recognized(g)
  /\ ~Objects[g].definition.is_none
  /\ Objects[g].definition.data = <<>>

Composite(g) == ~Recognized(g) /\ ~Objects[g].definition.is_none

Events(kind) == {i \in DOMAIN log : log[i].e = kind}

RECURSIVE SumVal(_)
SumVal(events) ==
  IF events = <<>> THEN 0 ELSE Head(events).val + SumVal(Tail(events))

RECURSIVE SumCached(_, _)
SumCached(data, c) ==
  IF data = <<>> THEN 0 ELSE c[gate_key(Head(data)[1])] + SumCached(Tail(data), c)

\* the entries of an instruction list whose instruction is of a Gate class
OnlyGates(data) == SelectSeq(data, LAMBDA t : Objects[t[1]].class \in GateClasses)

Reorderings(data) ==
  {[i \in 1..Len(data) |-> data[p[i]]] : p \in Permutations(1..Len(data))}

\* an invocation of the underlying function that ran to completion
Completed(i) ==
  \E j \in Events("store") :
    j > i /\ log[j].gate = log[i].gate /\ log[j].depth = log[i].depth

----------------------------------------------------------------------------
(* C1: every gate_cost call on a UGate or a U3Gate returns 1, whatever the *)
(* cache held when the call was made.                                      *)
C1_RotationCostsOne ==
  \A i \in Events("return") :
    Objects[log[i].gate].class \in {"UGate", "U3Gate"} => log[i].val = 1

(* C2: every gate_cost call on a CXGate returns 10, whatever the cache     *)
(* held when the call was made.                                            *)
C2_CXCostsTen ==
  \A i \in Events("return") :
    Objects[log[i].gate].class = "CXGate" => log[i].val = 10

(* C3: the value a gate_cost call returns for a gate of no recognized      *)
(* class that has a definition is the sum of gate_cost over the sub-gates  *)
(* of that definition, taken from the cache the call started from; the     *)
(* composite [u, u3, cx] costs 12.                                         *)
C3_CompositeIsSumOfParts ==
  (op = "gate_cost" /\ Composite(TopGate) /\ result.status = "ok") =>
     /\ LET parts == sum_map(Objects[TopGate].definition.data, 1, 0, Start(cache0), 1)
        IN  parts.ok /\ result.val = parts.val
     /\ TopGate = "foo" => result.val = 12

(* C4: memoization.  Within and across calls, all gate_cost calls on gates *)
(* with one key return one value; the underlying function completes at     *)
(* most once per key, and is not invoked for a key the cache already held. *)
C4_Memoized ==
  /\ \A i, j \in Events("return") : log[i].key = log[j].key => log[i].val = log[j].val
  /\ \A i, j \in Events("store") : log[i].key = log[j].key => i = j
  /\ \A i \in Events("return") :
        log[i].key \in DOMAIN cache0 => log[i].val = cache0[log[i].key]
  /\ \A i \in Events("invoke") : log[i].key \notin DOMAIN cache0

(* C5: compute_cost calls gate_cost on exactly the entries of the          *)
(* instruction list that are gates, in order, never on a directive, and    *)
(* returns the sum of what those calls returned.                           *)
C5_ComputeCostSumsGates ==
  op = "compute_cost" =>
    LET calls == SelectSeq(log, LAMBDA e : e.e = "call" /\ e.depth = 0)
        rets  == SelectSeq(log, LAMBDA e : e.e = "return" /\ e.depth = 0)
        gates == OnlyGates(arg)
    IN  /\ \A i \in Events("call") : Objects[log[i].gate].class \in GateClasses
        /\ Len(calls) <= Len(gates)
        /\ \A i \in 1..Len(calls) : calls[i].gate = gates[i][1]
        /\ result.status = "ok" =>
             /\ Len(calls) = Len(gates)
             /\ Len(rets) = Len(gates)
             /\ result.val = SumVal(rets)
             /\ \A i \in 1..Len(gates) : gate_key(gates[i][1]) \in DOMAIN cache
             /\ result.val = SumCached(gates, cache)
        /\ result.status = "raised" => Len(rets) < Len(calls)

C5_Witness ==
  /\ op = "compute_cost"
  /\ result.status = "ok"
  /\ result.val = 10
  /\ \E i \in DOMAIN arg : arg[i][1] = "measure"
  /\ \E i \in DOMAIN arg : arg[i][1] = "cx"

(* C6: has_cx is true exactly when some entry of the instruction list is   *)
(* of class CXGate, false for the empty circuit and for circuits of        *)
(* single-qubit gates only, and leaves the cache as it was.                *)
C6_HasCxIffCXGate ==
  op = "has_cx" =>
    /\ found <=> (\E i \in DOMAIN arg : Objects[arg[i][1]].class = "CXGate")
    /\ arg = <<>> => ~found
    /\ (\A i \in DOMAIN arg : Objects[arg[i][1]].num_qubits = 1) => ~found
    /\ cache = cache0
    /\ log = <<>>

C6_Witness ==
  /\ op = "has_cx"
  /\ found
  /\ cache # <<>>
  /\ \E i \in DOMAIN arg : arg[i][1] = "user_cx"

C8_AppendOnly ==
  /\ \A k \in DOMAIN cache0 : k \in DOMAIN cache /\ cache[k] = cache0[k]
  /\ \A i \in Events("store") : log[i].old = -1

(* C9: compute_cost, started from the same cache, returns the same total   *)
(* for every reordering of the instruction list.                           *)
C9_OrderIndependent ==
  (op = "compute_cost" /\ result.status = "ok" /\ Len(arg) > 1) =>
     \A data \in Reorderings(arg) :
        LET r == compute_cost(data, Start(cache0))
        IN  r.ok /\ r.val = result.val

(* C10: a call that raised left no entry under the key of any gate whose   *)
(* computation failed, and changed no entry that was there before; what it *)
(* added are entries of sub-gates that were fully costed.                  *)
C10_FailureStoresNothingForFailed ==
  result.status = "raised" =>
     /\ \A i \in Events("invoke") :
           ~Completed(i) => log[i].key \notin DOMAIN cache
     /\ \A k \in DOMAIN cache0 : k \in DOMAIN cache /\ cache[k] = cache0[k]
     /\ \A k \in DOMAIN cache \ DOMAIN cache0 :
           \E i \in Events("store") : log[i].key = k /\ log[i].val = cache[k]

====
